---- MODULE Spec2Model ----
(***************************************************************************)
(* State-machine model of src/src/lib/Toc.svelte (svelte-toc, Svelte 4):   *)
(* heading discovery, active-heading tracking, the open/closed panel,      *)
(* panel scroll synchronisation and the heading-entry handler.             *)
(*                                                                         *)
(* One action is one browser event handled to completion: the handler's    *)
(* code followed by Svelte's flush (reactive `$:` statements, the template *)
(* update, the bind:this callbacks and the reactive statements those       *)
(* invalidate).  The blur transition of <nav> only delays the removal of   *)
(* the element from the page; the model removes it in the same flush.      *)
(* When the element the MutationObserver watches holds the component's     *)
(* <aside>, the observer also receives the component's own insertions and  *)
(* removals: its callback then runs as the next step, before any event.    *)
(***************************************************************************)
EXTENDS Integers, Sequences, FiniteSets, TLC

\* ---------------------------------------------------------------- bounds
\* Heading elements the document can hold; document order is numeric order.
NumHeadings == 2
\* The positive value the minItems prop is drawn from (besides the default 0).
MinItemsMax == 2
\* The flash duration, in ticks of the model's clock, when flashing is on.
FlashTicks == 2

\* ------------------------------------------------------ program constants
activeHeadingScrollOffset == 100
breakpoint == 1000

Headings == 1..NumHeadings
\* activeHeading = null
NoHeading == 0
\* getBoundingClientRect().top values: just under the threshold, and on it.
Tops == {activeHeadingScrollOffset - 1, activeHeadingScrollOffset}
\* window.innerWidth values: on the breakpoint, and just over it.
Widths == {breakpoint, breakpoint + 1}
\* event.key values of a keyup on a heading entry.
Keys == {"Enter", " ", "Tab"}

\* <li> element references.  Li(i) is the element the {#each} block currently
\* renders at index i; Detached(i) is an element that block rendered at index
\* i and has since destroyed.
Li(i) == [ref |-> "li", idx |-> i]
Detached(i) == [ref |-> "detached", idx |-> i]
Null == [ref |-> "null", idx |-> 0]
Undefined == [ref |-> "undefined", idx |-> 0]
Truthy(li) == li.ref \in {"li", "detached"}

VARIABLES
  cfg,            \* props the component only reads
  lifecycle,      \* "created" (before onMount) | "mounted" | "failed" |
                  \* "destroyed"; on the server "server" | "rendered"
  observed,       \* the element the MutationObserver is connected to
  dom,            \* heading elements in the document matching headingSelector
  tops,           \* getBoundingClientRect().top of each heading element
  headings, activeHeading, activeTocLi, tocItems,
  window_width, desktop, open, hide, nav,
  scrolling,      \* document scroll in progress: "none" | "user" | "auto" | "smooth"
  hash,           \* location fragment, without the leading #
  history_length,
  toc_clicked,    \* heading elements carrying the class toc-clicked
  timers,         \* pending setTimeout callbacks: [node, due]
  event,          \* the event handled by the last step
  dispatched,     \* `open` notifications dispatched by the last step
  warned,         \* console.warn calls of the last step
  thrown,         \* message of the error the last step raised to its caller
  active_changed, \* whether the last step assigned another heading to activeHeading
  records,        \* whether the observer holds records of the component's own update
  navScrolls      \* nav.scrollTo commands issued by the last step

vars == <<cfg, lifecycle, observed, dom, tops, headings, activeHeading, activeTocLi,
          tocItems, window_width, desktop, open, hide, nav, scrolling, hash,
          history_length, toc_clicked, timers, event, dispatched, warned,
          thrown, active_changed, records, navScrolls>>

minItems == cfg.minItems
autoHide == cfg.autoHide
warnOnEmpty == cfg.warnOnEmpty
scrollBehavior == cfg.scrollBehavior
keepActiveTocItemInView == cfg.keepActiveTocItemInView
flashClickedHeadingsFor == cfg.flashClickedHeadingsFor
pageBody == cfg.pageBody

Configs ==
  [minItems : {0, MinItemsMax},
   autoHide : BOOLEAN,
   warnOnEmpty : BOOLEAN,
   scrollBehavior : {"auto", "smooth"},
   keepActiveTocItemInView : BOOLEAN,
   flashClickedHeadingsFor : {0, FlashTicks},
   pageBody : {"body", "main", "#content"}]

\* The props' defaults, but for flashClickedHeadingsFor: with flashing off no
\* timer is ever set, and the specifications without a clock start there.
DefaultConfig ==
  [minItems |-> 0, autoHide |-> TRUE, warnOnEmpty |-> TRUE,
   scrollBehavior |-> "smooth", keepActiveTocItemInView |-> TRUE,
   flashClickedHeadingsFor |-> 0, pageBody |-> "body"]

\* The configurations that differ from c at most in the props named in fs.
Varying(c, fs) ==
  {k \in Configs : \A f \in DOMAIN k : f \notin fs => k[f] = c[f]}

\* The document the component is mounted in: a <body> holding a <main> with
\* the headings and, outside <main>, the component's <aside>; no element
\* matches any other selector.
NoElement == "null"

\* document.querySelector(pageBody)
querySelector(sel) == IF sel \in {"body", "main"} THEN sel ELSE NoElement

\* Whether the component's <aside> lies in the subtree of el.
contains_aside(el) == el = "body"

\* getHeadingIds: node.id; the first heading of the document carries no id.
getHeadingIds(node) ==
  CASE node = 1 -> ""
    [] node = 2 -> "install"
    [] node = 3 -> "usage"
    [] OTHER -> "api"

\* [...document.querySelectorAll(headingSelector)]: the matching elements in
\* document order.
RECURSIVE QueryFrom(_, _)
QueryFrom(d, h) ==
  IF h > NumHeadings THEN <<>>
  ELSE IF h \in d THEN <<h>> \o QueryFrom(d, h + 1)
  ELSE QueryFrom(d, h + 1)

querySelectorAll(d) == QueryFrom(d, 1)

\* tocItems[idx], idx counted from 0 as in the source.
ItemAt(items, idx) ==
  IF idx + 1 <= Len(items) THEN items[idx + 1] ELSE Undefined

\* ----------------------------------------------------- active heading
\* Variant of scrolled_past with the comparison off by one (C1's formula must
\* tell the two apart).
scrolled_past_or_on(top) == top <= activeHeadingScrollOffset

\* `top < activeHeadingScrollOffset`: the viewport already scrolled past.
scrolled_past(top) == top < activeHeadingScrollOffset

\* The loop `while (idx--)` entered with idx: the index it stops on, or -1
\* when it runs out (only when headings is empty).
RECURSIVE active_scan(_, _, _)
active_scan(hs, t, idx) ==
  IF idx = 0 THEN -1
  ELSE LET i == idx - 1 IN
       IF scrolled_past(t[hs[i + 1]]) \/ i = 0 THEN i
       ELSE active_scan(hs, t, i)

\* Variant of set_active_heading that takes the highlight off an entry that
\* already has it, as a class toggle would (C9's formula must reject it).
set_active_heading_toggling(hs, t, items, ah, ali) ==
  LET i == active_scan(hs, t, Len(hs)) IN
  IF i < 0 THEN [activeHeading |-> ah, activeTocLi |-> ali]
  ELSE [activeHeading |-> hs[i + 1],
        activeTocLi |-> IF ali = ItemAt(items, i) THEN Null
                        ELSE ItemAt(items, i)]

\* set_active_heading: the new (activeHeading, activeTocLi), given the pair
\* before the call.
set_active_heading(hs, t, items, ah, ali) ==
  LET i == active_scan(hs, t, Len(hs)) IN
  IF i < 0 THEN [activeHeading |-> ah, activeTocLi |-> ali]
  ELSE [activeHeading |-> hs[i + 1], activeTocLi |-> ItemAt(items, i)]

\* ------------------------------------------------------ heading registry
\* Variant of requery_hide without the `else if (hide && autoHide)` branch
\* (C4's formula must reject it).
requery_hide_sticky(n, hd) ==
  IF n = 0 THEN (IF autoHide THEN TRUE ELSE hd) ELSE hd

\* The hide flag after the emptiness test of requery_headings.
requery_hide(n, hd) ==
  IF n = 0 THEN (IF autoHide THEN TRUE ELSE hd)
  ELSE IF hd /\ autoHide THEN FALSE
  ELSE hd

\* The console.warn calls of requery_headings.
requery_warn(n) == IF n = 0 /\ warnOnEmpty THEN 1 ELSE 0

\* requery_headings with a document: d is the set of matching elements.
requery_headings(d, t, items, ah, ali, hd) ==
  LET hs == querySelectorAll(d)
      a == set_active_heading(hs, t, items, ah, ali)
  IN [headings |-> hs,
      activeHeading |-> a.activeHeading,
      activeTocLi |-> a.activeTocLi,
      hide |-> requery_hide(Len(hs), hd),
      warned |-> requery_warn(Len(hs))]

\* Variant of requery_headings_in without the `typeof document` test: on the
\* server it queries a document with no element (C20's formula must reject
\* it).
requery_headings_in_unguarded(env, d, t, hs, items, ah, ali, hd) ==
  requery_headings(IF env = "server" THEN {} ELSE d, t, items, ah, ali, hd)

\* requery_headings in the environment env: on the server, where
\* `typeof document === 'undefined'`, it returns at its first line.
requery_headings_in(env, d, t, hs, items, ah, ali, hd) ==
  IF env = "server"
  THEN [headings |-> hs, activeHeading |-> ah, activeTocLi |-> ali,
        hide |-> hd, warned |-> 0]
  ELSE requery_headings(d, t, items, ah, ali, hd)

\* ---------------------------------------------------- scroll synchroniser
\* scroll_to_active_toc_item(behavior): the nav.scrollTo commands it issues.
scroll_to_active_toc_item(behavior, ali, navBound) ==
  IF keepActiveTocItemInView /\ Truthy(ali) /\ navBound
  THEN <<[target |-> ali, behavior |-> behavior]>>
  ELSE <<>>

\* The body of `$: if (open && nav) { ... }`.
open_nav_block(hs, t, items, ah, ali) ==
  LET a == set_active_heading(hs, t, items, ah, ali) IN
  [activeHeading |-> a.activeHeading,
   activeTocLi |-> a.activeTocLi,
   navScrolls |-> scroll_to_active_toc_item("instant", a.activeTocLi, TRUE)]

\* --------------------------------------------------------------- template
\* Variant of ButtonRendered that shows the button at every width (C14's
\* formula must reject it).
ButtonRendered_any_width(o, d, n) == ~o /\ n >= minItems

\* {#if !open && !desktop && headings.length >= minItems} <button>
ButtonRendered(o, d, n) == ~o /\ ~d /\ n >= minItems

\* {#if open || (desktop && headings.length >= minItems)} <nav>
NavRendered(o, d, n) == o \/ (d /\ n >= minItems)

\* Whether the template update added or removed an element of the <aside>:
\* the <button>, the <nav>, or an <li> of the rendered list.
ChildListChanged(btn0, nav0, n0, btn1, nav1, n1) ==
  \/ btn0 # btn1
  \/ nav0 # nav1
  \/ nav1 /\ n0 # n1

Max(a, b) == IF a >= b THEN a ELSE b

\* bind:this={tocItems[idx]} over {#each headings}: a rendered index holds
\* its <li>, an index whose <li> was destroyed holds null.
BindItems(items, rendered, n) ==
  LET m == IF rendered THEN n ELSE 0 IN
  [i \in 1..Max(Len(items), m) |-> IF i <= m THEN Li(i - 1) ELSE Null]

\* A reference to an <li> the update destroyed now names a detached element.
Detach(li, items) ==
  IF li.ref = "li" /\ ItemAt(items, li.idx) # li THEN Detached(li.idx) ELSE li

\* Variant of dispatch_open whose payload is the value before the change
\* (C6's formula must reject it).
dispatch_open_stale(openBefore, o) ==
  IF o # openBefore THEN <<[open |-> openBefore]>> ELSE <<>>

\* `$: dispatch('open', { open })`: runs when open was invalidated.
dispatch_open(openBefore, o) ==
  IF o # openBefore THEN <<[open |-> o]>> ELSE <<>>

\* Variant of desktop_of that counts the breakpoint itself as desktop (C8's
\* formula must reject it).
desktop_of_inclusive(w) == w >= breakpoint

\* `$: desktop = window_width > breakpoint`
desktop_of(w) == w > breakpoint

\* Svelte's flush after a handler left open = o, window_width = w,
\* headings = hs and the active pair (ah, ali): the reactive statements, the
\* template update with its bind:this callbacks, and the reactive statements
\* again for what those callbacks invalidated (nav).
Flush(openBefore, navBefore, o, w, hs, t, items, ah, ali) ==
  LET d == desktop_of(w)
      none == [activeHeading |-> ah, activeTocLi |-> ali, navScrolls |-> <<>>]
      r1 == IF o # openBefore /\ o /\ navBefore
            THEN open_nav_block(hs, t, items, ah, ali) ELSE none
      rendered == NavRendered(o, d, Len(hs))
      items2 == BindItems(items, rendered, Len(hs))
      ali1 == Detach(r1.activeTocLi, items2)
      r2 == IF rendered # navBefore /\ o /\ rendered
            THEN open_nav_block(hs, t, items2, r1.activeHeading, ali1)
            ELSE [activeHeading |-> r1.activeHeading, activeTocLi |-> ali1,
                  navScrolls |-> <<>>]
  IN [desktop |-> d,
      nav |-> rendered,
      tocItems |-> items2,
      activeHeading |-> r2.activeHeading,
      activeTocLi |-> r2.activeTocLi,
      dispatched |-> dispatch_open(openBefore, o),
      navScrolls |-> r1.navScrolls \o r2.navScrolls]

\* Top positions of the elements of d; elements outside the document have
\* no layout and keep a fixed value.
TopsOf(d) ==
  {t \in [Headings -> Tops] :
     \A h \in Headings \ d : t[h] = activeHeadingScrollOffset}

Ev(type) == [type |-> type, node |-> NoHeading, key |-> ""]

\* The component state a handler and the flush after it leave behind.  (A
\* value bound by \E over a singleton is computed once per step.)
Handled(ev, o, w, hs, t, ah, ali, hd, warns, cmds) ==
  \E f \in {Flush(open, nav, o, w, hs, t, tocItems, ah, ali)} :
  /\ event' = ev
  /\ open' = o
  /\ window_width' = w
  /\ headings' = hs
  /\ hide' = hd
  /\ desktop' = f.desktop
  /\ nav' = f.nav
  /\ tocItems' = f.tocItems
  /\ activeHeading' = f.activeHeading
  /\ activeTocLi' = f.activeTocLi
  /\ dispatched' = f.dispatched
  /\ warned' = warns
  /\ thrown' = ""
  /\ active_changed' = (f.activeHeading # activeHeading)
  /\ records' = /\ contains_aside(observed)
                /\ ChildListChanged(
                     ButtonRendered(open, desktop, Len(headings)), nav,
                     Len(headings),
                     ButtonRendered(o, f.desktop, Len(hs)), f.nav, Len(hs))
  /\ navScrolls' = cmds \o f.navScrolls

\* ------------------------------------------------------------------ Init
\* The instance script (requery_headings() with tocItems = [], then the first
\* flush with window_width bound to window.innerWidth), before onMount.
InitWith(configs) ==
  /\ cfg \in configs
  /\ lifecycle = "created"
  /\ observed = NoElement
  /\ thrown = ""
  /\ active_changed = FALSE
  /\ records = FALSE
  /\ dom \in SUBSET Headings
  /\ tops \in TopsOf(dom)
  /\ window_width \in Widths
  /\ open = FALSE
  /\ LET r == requery_headings(dom, tops, <<>>, NoHeading, Null, FALSE)
         f == Flush(FALSE, FALSE, FALSE, window_width, r.headings, tops, <<>>,
                    r.activeHeading, r.activeTocLi)
     IN /\ headings = r.headings
        /\ hide = r.hide
        /\ warned = r.warned
        /\ desktop = f.desktop
        /\ nav = f.nav
        /\ tocItems = f.tocItems
        /\ activeHeading = f.activeHeading
        /\ activeTocLi = f.activeTocLi
        /\ navScrolls = f.navScrolls
  /\ dispatched = <<[open |-> FALSE]>>
  /\ scrolling = "none"
  /\ hash = ""
  /\ history_length = 1
  /\ toc_clicked = {}
  /\ timers = {}
  /\ event = Ev("init")

\* --------------------------------------------------------------- actions
NoOutput(ev) ==
  /\ event' = ev
  /\ dispatched' = <<>>
  /\ warned' = 0
  /\ thrown' = ""
  /\ active_changed' = FALSE
  /\ records' = FALSE
  /\ navScrolls' = <<>>

componentVars == <<headings, activeHeading, activeTocLi, tocItems,
                   window_width, desktop, open, hide, nav>>

\* Variant of on_mount that returns quietly when the selector matches
\* nothing (C11's formula must reject it).
on_mount_silent(pb) ==
  [observed |-> querySelector(pb), thrown |-> ""]

\* The onMount callback for a pageBody given as a selector string: the
\* element the observer ends up connected to and the error thrown.
on_mount(pb) ==
  LET el == querySelector(pb) IN
  IF el = NoElement
  THEN [observed |-> NoElement,
        thrown |-> "Could not find page body element: null"]
  ELSE [observed |-> el, thrown |-> ""]

\* onMount: registers the MutationObserver, or throws to whoever mounts the
\* component.
Mount ==
  /\ lifecycle = "created"
  /\ \E m \in {on_mount(pageBody)} :
        /\ lifecycle' = IF m.thrown = "" THEN "mounted" ELSE "failed"
        /\ observed' = m.observed
        /\ thrown' = m.thrown
  /\ event' = Ev("mount")
  /\ dispatched' = <<>>
  /\ warned' = 0
  /\ active_changed' = FALSE
  /\ records' = FALSE
  /\ navScrolls' = <<>>
  /\ UNCHANGED <<cfg, dom, tops, componentVars, scrolling, hash,
                 history_length, toc_clicked, timers>>

\* Variant of disconnect that leaves the observer connected (C12's formula
\* must reject it).
disconnect_leaking(el) == el

\* mutation_observer.disconnect()
disconnect(el) == NoElement

\* The component is destroyed: the function onMount returned runs, the
\* window listeners are removed and the bind:this callbacks receive null.
Destroy ==
  /\ lifecycle = "mounted"
  /\ ~records
  /\ lifecycle' = "destroyed"
  /\ observed' = disconnect(observed)
  /\ nav' = FALSE
  /\ tocItems' = BindItems(tocItems, FALSE, 0)
  /\ activeTocLi' = Detach(activeTocLi, tocItems')
  /\ NoOutput(Ev("destroy"))
  /\ UNCHANGED <<cfg, dom, tops, headings, activeHeading, window_width,
                 desktop, open, hide, scrolling, hash, history_length,
                 toc_clicked, timers>>

\* A childList mutation in a document no observer of the component watches.
MutationUnobserved(d, t) ==
  /\ lifecycle \in {"failed", "destroyed"}
  /\ observed = NoElement
  /\ dom' = d
  /\ tops' = t
  /\ NoOutput(Ev("mutation"))
  /\ UNCHANGED <<cfg, lifecycle, observed, componentVars, scrolling, hash,
                 history_length, toc_clicked, timers>>

\* A childList mutation under pageBody leaves the elements d matching the
\* selector; the connected observer calls requery_headings.
MutationObserved(d, t) ==
  /\ observed # NoElement
  /\ ~records
  /\ dom' = d
  /\ tops' = t
  /\ \E r \in {requery_headings(d, t, tocItems, activeHeading, activeTocLi,
                                 hide)} :
        Handled(Ev("mutation"), open, window_width, r.headings, t,
                r.activeHeading, r.activeTocLi, r.hide, r.warned, <<>>)
  /\ UNCHANGED <<cfg, lifecycle, observed, scrolling, hash, history_length,
                 toc_clicked, timers>>

\* The observer delivers the records of the component's own update, before
\* any other event is handled: requery_headings runs on the document as it
\* is.
TocMutationObserved ==
  /\ observed # NoElement
  /\ records
  /\ \E r \in {requery_headings(dom, tops, tocItems, activeHeading,
                                 activeTocLi, hide)} :
        Handled(Ev("mutation"), open, window_width, r.headings, tops,
                r.activeHeading, r.activeTocLi, r.hide, r.warned, <<>>)
  /\ UNCHANGED <<cfg, lifecycle, observed, dom, tops, scrolling, hash,
                 history_length, toc_clicked, timers>>

\* on:scroll={set_active_heading}: the document scrolled, the headings are
\* now at the positions t.
Scroll(t) ==
  /\ lifecycle = "mounted"
  /\ ~records
  /\ tops' = t
  /\ scrolling' = IF scrolling = "none" THEN "user" ELSE scrolling
  /\ \E a \in {set_active_heading(headings, t, tocItems, activeHeading,
                                   activeTocLi)} :
        Handled(Ev("scroll"), open, window_width, headings, t,
                a.activeHeading, a.activeTocLi, hide, 0, <<>>)
  /\ UNCHANGED <<cfg, lifecycle, observed, dom, hash, history_length, toc_clicked,
                 timers>>

\* on:scrollend: the scroll in progress completed.
ScrollEnd ==
  /\ lifecycle = "mounted"
  /\ ~records
  /\ scrolling # "none"
  /\ scrolling' = "none"
  /\ Handled(Ev("scrollend"), open, window_width, headings, tops,
             activeHeading, activeTocLi, hide, 0,
             scroll_to_active_toc_item("smooth", activeTocLi, nav))
  /\ UNCHANGED <<cfg, lifecycle, observed, dom, tops, hash, history_length,
                 toc_clicked, timers>>

\* bind:innerWidth={window_width}: the window was resized to width w.
Resize(w) ==
  /\ lifecycle = "mounted"
  /\ ~records
  /\ w # window_width
  /\ Handled(Ev("resize"), open, w, headings, tops, activeHeading,
             activeTocLi, hide, 0, <<>>)
  /\ UNCHANGED <<cfg, lifecycle, observed, dom, tops, scrolling, hash, history_length,
                 toc_clicked, timers>>

\* Variant of close that closes the panel wherever the click landed (C13's
\* formula must reject it).
close_anywhere(inside, o) == FALSE

\* close(event): `if (!aside?.contains(event.target)) open = false`
close(inside, o) == IF ~inside THEN FALSE ELSE o

\* on:click={close} for a click that reaches the window and is not on a
\* heading entry: inside tells whether its target lies in the aside.
WindowClick(inside) ==
  /\ lifecycle = "mounted"
  /\ ~records
  /\ Handled([Ev("click") EXCEPT !.key = IF inside THEN "inside" ELSE "outside"],
             close(inside, open), window_width, headings, tops, activeHeading,
             activeTocLi, hide, 0, <<>>)
  /\ UNCHANGED <<cfg, lifecycle, observed, dom, tops, scrolling, hash, history_length,
                 toc_clicked, timers>>

\* The open button's on:click|preventDefault|stopPropagation.
ToggleClick ==
  /\ lifecycle = "mounted"
  /\ ~records
  /\ ButtonRendered(open, desktop, Len(headings))
  /\ Handled(Ev("toggle"), TRUE, window_width, headings, tops, activeHeading,
             activeTocLi, hide, 0, <<>>)
  /\ UNCHANGED <<cfg, lifecycle, observed, dom, tops, scrolling, hash, history_length,
                 toc_clicked, timers>>

\* The host assigns the hide prop of the mounted component.
HostSetsHide(b) ==
  /\ lifecycle = "mounted"
  /\ ~records
  /\ b # hide
  /\ Handled(Ev("sethide"), open, window_width, headings, tops,
             activeHeading, activeTocLi, b, 0, <<>>)
  /\ UNCHANGED <<cfg, lifecycle, observed, dom, tops, scrolling, hash,
                 history_length, toc_clicked, timers>>

\* Variant of ignored_key that lets Tab through (C10's formula must reject
\* it).
ignored_key_but_tab(keyboard, key) ==
  keyboard /\ key \notin {"Enter", " ", "Tab"}

\* `event instanceof KeyboardEvent && ![`Enter`, ` `].includes(event.key)`
ignored_key(keyboard, key) == keyboard /\ key \notin {"Enter", " "}

\* Variant of replace_state that calls history.pushState (C3's formula must
\* reject it).
push_state(id, h, len) ==
  IF id # "" THEN [hash |-> id, length |-> len + 1]
  ELSE [hash |-> h, length |-> len]

\* `if (id) history.replaceState({}, ``, `#${id}`)`: the (hash, length) after.
replace_state(id, h, len) ==
  IF id # "" THEN [hash |-> id, length |-> len]
  ELSE [hash |-> h, length |-> len]

\* `if (flashClickedHeadingsFor) { classList.add; setTimeout(...) }`
flash(node, marked, pending) ==
  IF flashClickedHeadingsFor # 0
  THEN [toc_clicked |-> marked \cup {node},
        timers |-> pending \cup {[node |-> node, due |-> flashClickedHeadingsFor]}]
  ELSE [toc_clicked |-> marked, timers |-> pending]

\* li_click_key_handler(node)(event) on the rendered entry of node; a click
\* then bubbles to the window, where close finds its target in the aside.
LiEvent(node, keyboard, key) ==
  /\ lifecycle = "mounted"
  /\ ~records
  /\ nav
  /\ \E i \in 1..Len(headings) : headings[i] = node
  /\ LET ev == [type |-> IF keyboard THEN "keyup" ELSE "liclick",
                node |-> node, key |-> key]
     IN IF ignored_key(keyboard, key)
        THEN /\ NoOutput(ev)
             /\ UNCHANGED <<componentVars, scrolling, hash, history_length,
                            toc_clicked, timers>>
        ELSE LET s == replace_state(getHeadingIds(node), hash, history_length)
                 fl == flash(node, toc_clicked, timers)
             IN /\ scrolling' = scrollBehavior
                /\ hash' = s.hash
                /\ history_length' = s.length
                /\ toc_clicked' = fl.toc_clicked
                /\ timers' = fl.timers
                /\ Handled(ev, IF keyboard THEN FALSE ELSE close(TRUE, FALSE),
                           window_width, headings, tops, activeHeading,
                           activeTocLi, hide, 0, <<>>)
  /\ UNCHANGED <<cfg, lifecycle, observed, dom, tops>>

LiClick(node) == LiEvent(node, FALSE, "")

LiKeyup(node, key) == LiEvent(node, TRUE, key)

\* One unit of time passes; a timer that is due fires before time moves on.
Tick ==
  /\ ~records
  /\ timers # {}
  /\ \A tm \in timers : tm.due > 0
  /\ timers' = {[tm EXCEPT !.due = @ - 1] : tm \in timers}
  /\ NoOutput(Ev("tick"))
  /\ UNCHANGED <<cfg, lifecycle, observed, dom, tops, componentVars, scrolling, hash,
                 history_length, toc_clicked>>

\* `() => node.classList.remove('toc-clicked')` of a timer that is due.
TimerFire(tm) ==
  /\ ~records
  /\ tm \in timers
  /\ tm.due = 0
  /\ timers' = timers \ {tm}
  /\ toc_clicked' = toc_clicked \ {tm.node}
  /\ NoOutput([Ev("timer") EXCEPT !.node = tm.node])
  /\ UNCHANGED <<cfg, lifecycle, observed, dom, tops, componentVars, scrolling, hash,
                 history_length>>

\* The mounted component without a clock: every handler of the component.
Next ==
  \/ Mount
  \/ \E d \in SUBSET Headings : \E t \in TopsOf(d) : MutationObserved(d, t)
  \/ TocMutationObserved
  \/ \E t \in TopsOf(dom) : Scroll(t)
  \/ ScrollEnd
  \/ \E w \in Widths : Resize(w)
  \/ \E inside \in BOOLEAN : WindowClick(inside)
  \/ ToggleClick
  \/ \E node \in Headings : LiClick(node)
  \/ \E node \in Headings : \E key \in Keys : LiKeyup(node, key)

\* Panel visibility: minItems and autoHide vary.
Init == InitWith(Varying(DefaultConfig, {"minItems", "autoHide"}))

Spec == Init /\ [][Next]_vars

\* Heading registry: autoHide and warnOnEmpty vary.
InitRegistry == InitWith(Varying(DefaultConfig, {"autoHide", "warnOnEmpty"}))

SpecRegistry == InitRegistry /\ [][Next]_vars

\* Scroll synchroniser: scrollBehavior and keepActiveTocItemInView vary.
InitScroll ==
  InitWith(Varying(DefaultConfig, {"scrollBehavior", "keepActiveTocItemInView"}))

SpecScroll == InitScroll /\ [][Next]_vars

\* The scroll synchroniser in a browser that reports the end of every scroll
\* and delivers every mutation record: a scroll in progress ends and its
\* scrollend event is handled, and the observer's callback runs on the
\* records of the component's own update.
SpecScrollFair ==
  /\ InitScroll
  /\ [][Next]_vars
  /\ WF_vars(ScrollEnd)
  /\ WF_vars(TocMutationObserved)

\* Active selection: pageBody varies, so that the observed element holds
\* the component's <aside> (body) or does not (main).
InitSelection == InitWith(Varying(DefaultConfig, {"pageBody"}))

SpecSelection == InitSelection /\ [][Next]_vars

\* The hide prop: autoHide varies, and the host sets and clears hide while
\* the document mutates.
InitHide == InitWith(Varying(DefaultConfig, {"autoHide"}))

NextHide ==
  \/ Mount
  \/ \E d \in SUBSET Headings : \E t \in TopsOf(d) : MutationObserved(d, t)
  \/ TocMutationObserved
  \/ \E w \in Widths : Resize(w)
  \/ \E b \in BOOLEAN : HostSetsHide(b)

SpecHide == InitHide /\ [][NextHide]_vars

\* Server-side rendering: the props as the host passes them, then the
\* instance script, which runs without a document, a window or an observer.
\* window_width is undefined there and compares false with every number; 0
\* stands for it.
InitServer ==
  /\ cfg \in Configs
  /\ lifecycle = "server"
  /\ observed = NoElement
  /\ dom = {}
  /\ tops \in TopsOf({})
  /\ headings = <<>>
  /\ activeHeading = NoHeading
  /\ activeTocLi = Null
  /\ tocItems = <<>>
  /\ window_width = 0
  /\ desktop = TRUE
  /\ open \in BOOLEAN
  /\ hide \in BOOLEAN
  /\ nav = FALSE
  /\ scrolling = "none"
  /\ hash = ""
  /\ history_length = 1
  /\ toc_clicked = {}
  /\ timers = {}
  /\ event = Ev("props")
  /\ dispatched = <<>>
  /\ warned = 0
  /\ thrown = ""
  /\ active_changed = FALSE
  /\ records = FALSE
  /\ navScrolls = <<>>

\* The instance script on the server: requery_headings(), then the reactive
\* statements once (window_width is undefined, so desktop becomes false).
RenderOnServer ==
  /\ lifecycle = "server"
  /\ lifecycle' = "rendered"
  /\ \E r \in {requery_headings_in("server", dom, tops, headings, tocItems,
                                    activeHeading, activeTocLi, hide)} :
        /\ headings' = r.headings
        /\ activeHeading' = r.activeHeading
        /\ activeTocLi' = r.activeTocLi
        /\ hide' = r.hide
        /\ warned' = r.warned
        /\ active_changed' = (r.activeHeading # activeHeading)
  /\ desktop' = desktop_of(window_width)
  /\ dispatched' = <<[open |-> open]>>
  /\ event' = Ev("render")
  /\ thrown' = ""
  /\ records' = FALSE
  /\ navScrolls' = <<>>
  /\ UNCHANGED <<cfg, observed, dom, tops, tocItems, window_width, open, nav,
                 scrolling, hash, history_length, toc_clicked, timers>>

SpecServer == InitServer /\ [][RenderOnServer]_vars

\* Flashing on, with the clock: the heading entries, the toggle, window
\* clicks, and the timers; the document, of at most two headings, and the
\* window stay as they are.
InitFlash ==
  /\ InitWith({[DefaultConfig EXCEPT !.flashClickedHeadingsFor = FlashTicks]})
  /\ dom \subseteq {1, 2}

NextFlash ==
  \/ Mount
  \/ TocMutationObserved
  \/ \E inside \in BOOLEAN : WindowClick(inside)
  \/ ToggleClick
  \/ \E node \in Headings : LiClick(node)
  \/ \E node \in Headings : \E key \in Keys : LiKeyup(node, key)
  \/ Tick
  \/ \E tm \in timers : TimerFire(tm)

SpecFlash == InitFlash /\ [][NextFlash]_vars

\* Mount and unmount: pageBody and autoHide vary; the document mutates and
\* scrolls while the component is mounted, and mutates after.
InitLifecycle == InitWith(Varying(DefaultConfig, {"pageBody", "autoHide"}))

NextLifecycle ==
  \/ Mount
  \/ \E d \in SUBSET Headings : \E t \in TopsOf(d) : MutationObserved(d, t)
  \/ TocMutationObserved
  \/ \E t \in TopsOf(dom) : Scroll(t)
  \/ Destroy
  \/ \E d \in SUBSET Headings : \E t \in TopsOf(d) : MutationUnobserved(d, t)

SpecLifecycle == InitLifecycle /\ [][NextLifecycle]_vars

\* ------------------------------------------------------------ properties
\* Indices (from 1) of the headings of hs whose top is strictly under the
\* threshold.
PassedIdx(hs, t) ==
  {i \in 1..Len(hs) : t[hs[i]] < activeHeadingScrollOffset}

\* The heading the contract names: the last one scrolled past, else the first.
LastPassed(hs, t) ==
  IF PassedIdx(hs, t) = {} THEN hs[1]
  ELSE hs[CHOOSE i \in PassedIdx(hs, t) : \A j \in PassedIdx(hs, t) : j <= i]

\* The handlers that end by calling set_active_heading on the state they
\* leave: scroll, the observer's re-query, and the toggle (through the
\* `$: if (open && nav)` block).
RanSetActiveHeading == event.type \in {"scroll", "mutation", "toggle"}

\* C1: after set_active_heading ran on a non-empty heading collection, the
\* one active heading is the heading of largest index whose top is strictly
\* below activeHeadingScrollOffset, and the first heading when no top is.
C1_ActiveIsLastPassed ==
  (RanSetActiveHeading /\ headings # <<>>) =>
     /\ activeHeading = LastPassed(headings, tops)
     /\ Cardinality({i \in 1..Len(headings) : headings[i] = activeHeading}) = 1

\* A scroll left two or more headings, none of them scrolled past, and the
\* first one is active.
C1_Witness ==
  /\ event.type = "scroll"
  /\ Len(headings) >= 2
  /\ PassedIdx(headings, tops) = {}
  /\ activeHeading = headings[1]

\* C9: set_active_heading is idempotent: after a scroll event ran it, a
\* second run on the unchanged headings, positions and list items yields the
\* pair (activeHeading, activeTocLi) the first run left.
C9_Idempotent ==
  event.type = "scroll" =>
     set_active_heading(headings, tops, tocItems, activeHeading, activeTocLi)
       = [activeHeading |-> activeHeading, activeTocLi |-> activeTocLi]

\* A scroll moved the active heading to the second entry of a rendered list.
C9_Witness ==
  /\ event.type = "scroll"
  /\ nav
  /\ Len(headings) >= 2
  /\ activeHeading = headings[2]
  /\ activeTocLi = Li(1)

\* C2 (as claimed): whenever the number of headings is below minItems the
\* <nav> with the heading list is not rendered, whatever the open flag.
C2_NoNavBelowMinItems == Len(headings) < minItems => ~nav

\* The last step activated a heading entry: a click, or a keyup of Enter or
\* Space.
Activated ==
  \/ event.type = "liclick"
  \/ event.type = "keyup" /\ event.key \in {"Enter", " "}

\* C3 (as claimed): activating the entry of any heading leaves open false,
\* sets the location fragment to the heading's identifier and leaves the
\* history length as it was.
C3_ActivationSetsFragment ==
  [][Activated' =>
       /\ open' = FALSE
       /\ hash' = getHeadingIds(event'.node)
       /\ history_length' = history_length]_vars

\* C3 (amended): activating the entry of any heading leaves open false and
\* the history length as it was; the location fragment becomes the heading's
\* identifier when that is non-empty and is left as it was when it is empty.
C3_ActivationReplacesFragment ==
  [][Activated' =>
       /\ open' = FALSE
       /\ history_length' = history_length
       /\ hash' = IF getHeadingIds(event'.node) # ""
                  THEN getHeadingIds(event'.node) ELSE hash]_vars

\* A click on the entry of a heading with an identifier closed the open
\* panel and the fragment names that heading.
C3_Witness ==
  /\ event.type = "liclick"
  /\ getHeadingIds(event.node) # ""
  /\ hash = getHeadingIds(event.node)
  /\ dispatched = <<[open |-> FALSE]>>
  /\ ~open

\* C4: with autoHide and warnOnEmpty on, a re-query that matches nothing
\* emits one diagnostic and leaves hide true, and a re-query that matches a
\* heading leaves hide false, whatever hide was before it.
C4_AutoHideFollowsRequery ==
  [][(event'.type = "mutation" /\ autoHide /\ warnOnEmpty) =>
       IF headings' = <<>> THEN hide' /\ warned' = 1
       ELSE ~hide' /\ warned' = 0]_vars

\* The observer's re-query found no heading: the diagnostic was emitted and
\* the panel is hidden.
C4_Witness ==
  /\ event.type = "mutation"
  /\ autoHide /\ warnOnEmpty
  /\ headings = <<>>
  /\ hide
  /\ warned = 1

\* C5 (as claimed): the marker of a click stays on the heading until the
\* timer of that click runs out: while any flash timer of a heading is
\* pending, the heading carries toc-clicked.
C5_MarkerOutlivesNoTimer ==
  \A tm \in timers : tm.node \in toc_clicked

\* C6 (as claimed): every change of open, desktop or hide dispatches an
\* `open` notification carrying the new open flag.
C6_EveryTransitionDispatches ==
  [][(open' # open \/ desktop' # desktop \/ hide' # hide) =>
       dispatched' = <<[open |-> open']>>]_vars

\* C6 (amended): every change of open dispatches one `open` notification
\* carrying the new open flag, and a step that leaves open as it was (a
\* change of desktop or of hide alone included) dispatches none.
C6_OpenChangeDispatches ==
  [][IF open' # open THEN dispatched' = <<[open |-> open']>>
     ELSE dispatched' = <<>>]_vars

\* The toggle opened the panel and the notification carries open = true.
C6_Witness ==
  /\ event.type = "toggle"
  /\ open
  /\ dispatched = <<[open |-> TRUE]>>

\* C7 (as claimed): while a smooth scroll the component started is in
\* flight, no step but the scrollend handler issues a scroll command to the
\* panel's container.
C7_NoPanelScrollInFlight ==
  [][(scrolling = "smooth" /\ event'.type # "scrollend") =>
       navScrolls' = <<>>]_vars

\* C8: desktop is window_width > breakpoint in every state: the breakpoint
\* itself is mobile, and at a desktop width with at least minItems headings
\* the <nav> is rendered, open or not.
C8_DesktopFollowsWidth ==
  /\ desktop = (window_width > breakpoint)
  /\ window_width = breakpoint => ~desktop
  /\ (window_width > breakpoint /\ Len(headings) >= minItems) => nav

\* A resize to a desktop width rendered the list of a closed panel.
C8_Witness ==
  /\ event.type = "resize"
  /\ window_width > breakpoint
  /\ desktop
  /\ ~open
  /\ Len(headings) >= minItems
  /\ headings # <<>>
  /\ nav

\* C10: a keyup on a heading entry with a key other than Enter or Space
\* leaves open, the document scroll, the location fragment, the history
\* length, the flash markers and the flash timers as they were.
C10_OtherKeysIgnored ==
  [][(event'.type = "keyup" /\ event'.key \notin {"Enter", " "}) =>
       UNCHANGED <<open, scrolling, hash, history_length, toc_clicked,
                   timers>>]_vars

\* Tab was released on an entry of the open panel while a flash was pending.
C10_Witness ==
  /\ event.type = "keyup"
  /\ event.key = "Tab"
  /\ open
  /\ timers # {}

\* C11: at mount, a pageBody selector that matches no element makes onMount
\* raise an error to its caller and leaves no mutation observer registered;
\* a selector that matches makes it raise nothing and leaves the observer
\* registered on the matched element.
C11_MountFailsWithoutPageBody ==
  [][event'.type = "mount" =>
       IF querySelector(pageBody) = NoElement
       THEN thrown' # "" /\ observed' = NoElement /\ lifecycle' = "failed"
       ELSE /\ thrown' = ""
            /\ observed' = querySelector(pageBody)
            /\ lifecycle' = "mounted"]_vars

\* Mounting with a selector that matches nothing raised the error, and a
\* later mutation of the document reached no observer.
C11_Witness ==
  /\ querySelector(pageBody) = NoElement
  /\ lifecycle = "failed"
  /\ observed = NoElement
  /\ event.type = "mutation"
  /\ querySelectorAll(dom) # headings

\* C12: the mutation observer is connected while the component is mounted
\* and disconnected once it is destroyed, and a mutation of the document
\* after the component was destroyed leaves headings, hide, activeHeading
\* and activeTocLi as they were.
C12_ObserverScopedToMount ==
  /\ [](lifecycle = "mounted" => observed # NoElement)
  /\ [](lifecycle = "destroyed" => observed = NoElement)
  /\ [][(lifecycle = "destroyed" /\ event'.type = "mutation") =>
          UNCHANGED <<headings, hide, activeHeading, activeTocLi>>]_vars

\* After the component was destroyed the document lost or gained headings
\* and the component's collection did not follow.
C12_Witness ==
  /\ lifecycle = "destroyed"
  /\ observed = NoElement
  /\ event.type = "mutation"
  /\ headings # <<>>
  /\ querySelectorAll(dom) # headings

\* C13: a window click whose target lies outside the aside leaves open
\* false, a window click whose target lies inside the aside leaves open as
\* it was, and the click on the open button leaves open true.
C13_OutsideClickCloses ==
  [][/\ (event'.type = "click" /\ event'.key = "outside") => ~open'
     /\ (event'.type = "click" /\ event'.key = "inside") => open' = open
     /\ event'.type = "toggle" => open']_vars

\* A click inside the aside of the open panel left it open.
C13_Witness ==
  /\ event.type = "click"
  /\ event.key = "inside"
  /\ open
  /\ nav

\* C14: open turns from false to true only in a step of the open button,
\* taken at a width of at most the breakpoint (desktop false) with at least
\* minItems headings; no scroll, resize, mutation, window click or heading
\* entry turns it true.
C14_OnlyToggleOpens ==
  [][(~open /\ open') =>
       /\ event'.type = "toggle"
       /\ window_width <= breakpoint
       /\ ~desktop
       /\ Len(headings) >= minItems]_vars

\* The open button opened the panel of a component with minItems headings.
C14_Witness ==
  /\ event.type = "toggle"
  /\ open
  /\ minItems > 0
  /\ Len(headings) >= minItems
  /\ window_width <= breakpoint

\* The last step sent the panel's container a scroll command whose target is
\* the active item.
PanelScrolledToActive ==
  /\ navScrolls # <<>>
  /\ navScrolls[Len(navScrolls)].target = activeTocLi

\* C15 (as claimed): with keepActiveTocItemInView on and the <nav> rendered,
\* every change of the active heading by a scroll event or by the observer's
\* re-query leads to a scroll command to the panel's container that targets
\* the active item, and so does every step of the open button that opens a
\* panel with headings.
C15_SelectionChangeScrollsPanel ==
  /\ (/\ active_changed
      /\ event.type \in {"scroll", "mutation"}
      /\ keepActiveTocItemInView
      /\ nav) ~> PanelScrolledToActive
  /\ (/\ event.type = "toggle"
      /\ open
      /\ headings # <<>>
      /\ keepActiveTocItemInView
      /\ nav) ~> PanelScrolledToActive

\* C16 (as claimed): every scroll command sent to the panel's container
\* carries the configured scrollBehavior: none is smooth when scrollBehavior
\* is auto, and none is an immediate jump when it is smooth.
C16_PanelScrollsUseScrollBehavior ==
  \A i \in 1..Len(navScrolls) : navScrolls[i].behavior = scrollBehavior

\* C17 (as claimed): after every re-query activeHeading is null or one of
\* the headings of the collection the re-query produced, the empty
\* collection included.
C17_ActiveHeadingIsCurrent ==
  event.type = "mutation" =>
     \/ activeHeading = NoHeading
     \/ \E i \in 1..Len(headings) : headings[i] = activeHeading

\* C18 (as claimed): after a scroll event or a re-query, once the observer
\* holds no record of the component's own update, with headings non-empty
\* and the list rendered, activeTocLi is the <li> rendered at the index of
\* activeHeading.
C18_ActivePairConsistent ==
  (/\ event.type \in {"scroll", "mutation"}
   /\ ~records
   /\ nav
   /\ headings # <<>>) =>
     \E i \in 1..Len(headings) :
        headings[i] = activeHeading /\ activeTocLi = Li(i - 1)

\* C19 (as claimed): a re-query that directly follows the host setting hide
\* to true leaves hide true, and with autoHide off a re-query leaves hide
\* as it was.
C19_RequeryKeepsHostHide ==
  [][event'.type = "mutation" =>
       /\ (event.type = "sethide" /\ hide) => hide'
       /\ ~autoHide => hide' = hide]_vars

\* C20: the instance script's requery_headings call on the server leaves
\* headings, activeHeading, activeTocLi and hide as the props gave them and
\* emits no diagnostic.
C20_NoDocumentNoOp ==
  [][event'.type = "render" =>
       /\ UNCHANGED <<headings, activeHeading, activeTocLi, hide>>
       /\ warned' = 0]_vars

\* Rendered on the server with autoHide and warnOnEmpty on: no heading, not
\* hidden, no diagnostic.
C20_Witness ==
  /\ event.type = "render"
  /\ lifecycle = "rendered"
  /\ autoHide /\ warnOnEmpty
  /\ headings = <<>>
  /\ ~hide
  /\ warned = 0

====
